---- MODULE Spec2Model ----
(***************************************************************************)
(* Model of accounts_retriever.py: the command-line entry point, main()    *)
(* and the file it writes.  Text is a sequence of one-character strings so *)
(* that json.dumps, the file truncation and partial writes act on the      *)
(* characters the program really produces.                                 *)
(***************************************************************************)
EXTENDS Integers, Sequences, FiniteSets, TLC

VARIABLES argv, mapping, mappingIterable, fs, fs0, pc, output, idx,
          account_list, accounts_json, output_file, buffered, exitCode,
          raised, runs, mainCalls, opens

vars == <<argv, mapping, mappingIterable, fs, fs0, pc, output, idx,
          account_list, accounts_json, output_file, buffered, exitCode,
          raised, runs, mainCalls, opens>>

-----------------------------------------------------------------------------
(* Bounds *)

\* largest number of entries of BRKT_EMPLOYEE_ACCOUNTS
MaxEntries == 2

\* number of process runs in one behaviour
MaxRuns == 2

\* largest number of characters that reach the disk before a failing write
MaxPartial == 2

-----------------------------------------------------------------------------
(* Characters and strings *)

Q == "\""

BS == "\\"

NL == "\n"

\* a byte that is not valid UTF-8 (0xFF) inside a Python 2 str
BadByte == "<0xFF>"

Spaces(n) == [i \in 1..n |-> " "]

\* the characters the model uses, in ASCII order
Ascii == <<NL, " ", Q, ",", "-", ".", "/", "0", "1", "2", "3", "4", "5",
           "6", "7", "8", "9", ":", "[", BS, "]", "_", "a", "d", "e", "i",
           "l", "m", "n", "o", "q", "v", "{", "}", BadByte>>

CharOrd(c) == CHOOSE i \in 1..Len(Ascii) : Ascii[i] = c

\* Python 2 str comparison: lexicographic on bytes, a proper prefix is less
RECURSIVE StrLess(_, _)
StrLess(a, b) ==
    IF b = <<>> THEN FALSE
    ELSE IF a = <<>> THEN TRUE
    ELSE IF CharOrd(Head(a)) # CharOrd(Head(b))
         THEN CharOrd(Head(a)) < CharOrd(Head(b))
         ELSE StrLess(Tail(a), Tail(b))

KeyName == <<"n", "a", "m", "e">>

KeyId == <<"i", "d">>

-----------------------------------------------------------------------------
(* The collaborator's mapping and the environment *)

NameQa == <<"q", "a">>

NameQuoted == <<"d", Q, "v">>

NameBad == <<"a", BadByte>>

Names == {NameQa, NameQuoted, NameBad}

IdQa == <<"4", "7", "5", "0", "6", "3", "6", "1", "2", "7", "2", "4">>

IdShort == <<"0", "1">>

Ids == {IdQa, IdShort}

Entries == [name : Names, id : Ids]

RECURSIVE SeqsUpTo(_, _)
SeqsUpTo(S, n) ==
    IF n = 0 THEN {<<>>}
    ELSE LET shorter == SeqsUpTo(S, n - 1)
         IN  shorter \cup {Append(s, e) : s \in shorter, e \in S}

\* a dict has one entry per key: the names of the items are distinct
DistinctNames(m) ==
    \A i, j \in 1..Len(m) : m[i].name = m[j].name => i = j

\* BRKT_EMPLOYEE_ACCOUNTS as the sequence of its items in iteration order
Mappings == {m \in SeqsUpTo(Entries, MaxEntries) : DistinctNames(m)}

DefaultPath == "./aws_accounts.json"

OtherPath == "/tmp/accounts.json"

ReadOnlyPath == "/readonly/accounts.json"

Paths == {DefaultPath, OtherPath, ReadOnlyPath}

\* paths that open(path, 'w') can open
Writable == {DefaultPath, OtherPath}

Absent == [exists |-> FALSE, data |-> <<>>]

File(text) == [exists |-> TRUE, data |-> text]

OldContent == <<"o", "l", "d">>

PriorFiles == {Absent, File(OldContent)}

Argvs == {<<>>} \cup {<<"--output", p>> : p \in Paths}

-----------------------------------------------------------------------------
(* argparse: one option, --output, with a default *)

RECURSIVE ParseArgs(_, _)
ParseArgs(args, value) ==
    IF Len(args) >= 2 /\ args[1] = "--output"
    THEN ParseArgs(SubSeq(args, 3, Len(args)), args[2])
    ELSE value

\* the default of --output set to another file name
ArgsOutput_WrongDefault(args) == ParseArgs(args, OtherPath)

ArgsOutput(args) == ParseArgs(args, DefaultPath)

-----------------------------------------------------------------------------
(* json.dumps(account_list, indent=4, sort_keys=True) under Python 2 *)

Indent == 4

\* Python 2 default separators: (', ', ': ') even when indent is given
ItemSeparator == <<",", " ">>

KeySeparator == <<":", " ">>

\* the dict built at lines 28-31, as its items
Owner(name, account) == <<<<KeyName, name>>, <<KeyId, account>>>>

Encodable(s) == \A i \in 1..Len(s) : s[i] # BadByte

EscapeChar(c) ==
    IF c = Q THEN <<BS, Q>>
    ELSE IF c = BS THEN <<BS, BS>>
    ELSE IF c = NL THEN <<BS, "n">>
    ELSE <<c>>

RECURSIVE EscapeStr(_)
EscapeStr(s) ==
    IF s = <<>> THEN <<>> ELSE EscapeChar(Head(s)) \o EscapeStr(Tail(s))

EncodeStr(s) == <<Q>> \o EscapeStr(s) \o <<Q>>

RECURSIVE InsertItem(_, _)
InsertItem(item, sorted) ==
    IF sorted = <<>> THEN <<item>>
    ELSE IF StrLess(item[1], Head(sorted)[1])
         THEN <<item>> \o sorted
         ELSE <<Head(sorted)>> \o InsertItem(item, Tail(sorted))

RECURSIVE SortItems(_)
SortItems(items) ==
    IF items = <<>> THEN <<>>
    ELSE InsertItem(Head(items), SortItems(Tail(items)))

\* sort_keys left out: the items stay in the order the dict was written
DictItems_Unsorted(d) == d

DictItems(d) == SortItems(d)

NewlineIndent(level) == <<NL>> \o Spaces(Indent * level)

RECURSIVE JoinItems(_, _, _)
JoinItems(items, level, first) ==
    IF items = <<>> THEN <<>>
    ELSE (IF first THEN <<>> ELSE ItemSeparator \o NewlineIndent(level))
         \o EncodeStr(Head(items)[1]) \o KeySeparator
         \o EncodeStr(Head(items)[2])
         \o JoinItems(Tail(items), level, FALSE)

EncodeDict(d, level) ==
    IF d = <<>> THEN <<"{", "}">>
    ELSE <<"{">> \o NewlineIndent(level + 1)
         \o JoinItems(DictItems(d), level + 1, TRUE)
         \o NewlineIndent(level) \o <<"}">>

RECURSIVE JoinElems(_, _, _)
JoinElems(lst, level, first) ==
    IF lst = <<>> THEN <<>>
    ELSE (IF first THEN <<>> ELSE ItemSeparator \o NewlineIndent(level))
         \o EncodeDict(Head(lst), level)
         \o JoinElems(Tail(lst), level, FALSE)

\* the empty list laid out like a non-empty one
EncodeList_NoEmptyCase(lst, level) ==
    <<"[">> \o NewlineIndent(level + 1)
    \o JoinElems(lst, level + 1, TRUE)
    \o NewlineIndent(level) \o <<"]">>

EncodeList(lst, level) ==
    IF lst = <<>> THEN <<"[", "]">>
    ELSE <<"[">> \o NewlineIndent(level + 1)
         \o JoinElems(lst, level + 1, TRUE)
         \o NewlineIndent(level) \o <<"]">>

Dumps(lst) == EncodeList(lst, 0)

DumpsRaises(lst) ==
    \E i \in 1..Len(lst) : \E k \in 1..Len(lst[i]) :
        ~Encodable(lst[i][k][1]) \/ ~Encodable(lst[i][k][2])

-----------------------------------------------------------------------------
(* The file system *)

Prefix(text, k) == SubSeq(text, 1, k)

\* how many characters of text may be on disk when writing it fails
PartialLens(text) == {k \in 0..MaxPartial : k < Len(text)} \cup {0}

Truncated(files, path) == [files EXCEPT ![path] = File(<<>>)]

Appended(files, path, text) ==
    [files EXCEPT ![path] = File(files[path].data \o text)]

-----------------------------------------------------------------------------
(* The program *)

Init ==
    /\ argv \in Argvs
    /\ mapping \in Mappings
    /\ mappingIterable \in BOOLEAN
    /\ (~mappingIterable => mapping = <<>>)
    /\ fs \in [Paths -> PriorFiles]
    /\ fs0 = fs
    /\ pc = "start"
    /\ output = ""
    /\ idx = 1
    /\ account_list = <<>>
    /\ accounts_json = <<>>
    /\ output_file = "none"
    /\ buffered = <<>>
    /\ exitCode = -1
    /\ raised = "none"
    /\ runs = 1
    /\ mainCalls = 0
    /\ opens = 0

\* the exception is swallowed and the process exits with 0
Raise_Swallowed(where) ==
    /\ pc' = "failed"
    /\ raised' = where
    /\ exitCode' = 0

\* an exception leaves main and ends the process
Raise(where) ==
    /\ pc' = "failed"
    /\ raised' = where
    /\ exitCode' = 1

\* lines 39-44 and line 26
EntryPoint ==
    /\ pc = "start"
    /\ output' = ArgsOutput(argv)
    /\ mainCalls' = mainCalls + 1
    /\ account_list' = <<>>
    /\ idx' = 1
    /\ pc' = "for"
    /\ UNCHANGED <<argv, mapping, mappingIterable, fs, fs0, accounts_json,
                   output_file, buffered, exitCode, raised, runs, opens>>

\* line 27 when the mapping has no iteritems
ForRaise ==
    /\ pc = "for"
    /\ ~mappingIterable
    /\ Raise("for")
    /\ UNCHANGED <<argv, mapping, mappingIterable, fs, fs0, output, idx,
                   account_list, accounts_json, output_file, buffered, runs,
                   mainCalls, opens>>

\* the list is rebound to the new record instead of appended to
ForNext_Overwrite ==
    /\ pc = "for"
    /\ mappingIterable
    /\ idx <= Len(mapping)
    /\ account_list' = <<Owner(mapping[idx].name, mapping[idx].id)>>
    /\ idx' = idx + 1
    /\ UNCHANGED <<argv, mapping, mappingIterable, fs, fs0, pc, output,
                   accounts_json, output_file, buffered, exitCode, raised,
                   runs, mainCalls, opens>>

\* the record is inserted at the front of the list
ForNext_Prepend ==
    /\ pc = "for"
    /\ mappingIterable
    /\ idx <= Len(mapping)
    /\ account_list' =
           <<Owner(mapping[idx].name, mapping[idx].id)>> \o account_list
    /\ idx' = idx + 1
    /\ UNCHANGED <<argv, mapping, mappingIterable, fs, fs0, pc, output,
                   accounts_json, output_file, buffered, exitCode, raised,
                   runs, mainCalls, opens>>

\* lines 27-32, one iteration
ForNext ==
    /\ pc = "for"
    /\ mappingIterable
    /\ idx <= Len(mapping)
    /\ account_list' =
           Append(account_list, Owner(mapping[idx].name, mapping[idx].id))
    /\ idx' = idx + 1
    /\ UNCHANGED <<argv, mapping, mappingIterable, fs, fs0, pc, output,
                   accounts_json, output_file, buffered, exitCode, raised,
                   runs, mainCalls, opens>>

\* line 33
DumpsOk ==
    /\ pc = "for"
    /\ mappingIterable
    /\ idx > Len(mapping)
    /\ ~DumpsRaises(account_list)
    /\ accounts_json' = Dumps(account_list)
    /\ pc' = "open"
    /\ UNCHANGED <<argv, mapping, mappingIterable, fs, fs0, output, idx,
                   account_list, output_file, buffered, exitCode, raised,
                   runs, mainCalls, opens>>

\* line 33 when a str is not valid UTF-8
DumpsRaise ==
    /\ pc = "for"
    /\ mappingIterable
    /\ idx > Len(mapping)
    /\ DumpsRaises(account_list)
    /\ Raise("dumps")
    /\ UNCHANGED <<argv, mapping, mappingIterable, fs, fs0, output, idx,
                   account_list, accounts_json, output_file, buffered, runs,
                   mainCalls, opens>>

\* the file name is hard-coded instead of taken from the parameter
OpenOk_FixedPath ==
    /\ pc = "open"
    /\ output \in Writable
    /\ fs' = Truncated(fs, DefaultPath)
    /\ output_file' = "open"
    /\ opens' = opens + 1
    /\ pc' = "write"
    /\ UNCHANGED <<argv, mapping, mappingIterable, fs0, output, idx,
                   account_list, accounts_json, buffered, exitCode, raised,
                   runs, mainCalls>>

\* mode 'a': the file is created when absent and never truncated
OpenOk_Append ==
    /\ pc = "open"
    /\ output \in Writable
    /\ fs' = Appended(fs, output, <<>>)
    /\ output_file' = "open"
    /\ opens' = opens + 1
    /\ pc' = "write"
    /\ UNCHANGED <<argv, mapping, mappingIterable, fs0, output, idx,
                   account_list, accounts_json, buffered, exitCode, raised,
                   runs, mainCalls>>

\* the open moved in front of the loop
OpenOk_BeforeLoop ==
    /\ pc = "for"
    /\ idx = 1
    /\ output_file = "none"
    /\ output \in Writable
    /\ fs' = Truncated(fs, output)
    /\ output_file' = "open"
    /\ opens' = opens + 1
    /\ UNCHANGED <<argv, mapping, mappingIterable, fs0, pc, output, idx,
                   account_list, accounts_json, buffered, exitCode, raised,
                   runs, mainCalls>>

\* line 34: mode 'w' creates the file or truncates it
OpenOk ==
    /\ pc = "open"
    /\ output \in Writable
    /\ fs' = Truncated(fs, output)
    /\ output_file' = "open"
    /\ opens' = opens + 1
    /\ pc' = "write"
    /\ UNCHANGED <<argv, mapping, mappingIterable, fs0, output, idx,
                   account_list, accounts_json, buffered, exitCode, raised,
                   runs, mainCalls>>

\* line 34 raising IOError
OpenRaise ==
    /\ pc = "open"
    /\ output \notin Writable
    /\ opens' = opens + 1
    /\ Raise("open")
    /\ UNCHANGED <<argv, mapping, mappingIterable, fs, fs0, output, idx,
                   account_list, accounts_json, output_file, buffered, runs,
                   mainCalls>>

\* line 35: the text goes to the file object's buffer
WriteOk ==
    /\ pc = "write"
    /\ buffered' = accounts_json
    /\ pc' = "close"
    /\ UNCHANGED <<argv, mapping, mappingIterable, fs, fs0, output, idx,
                   account_list, accounts_json, output_file, exitCode,
                   raised, runs, mainCalls, opens>>

\* line 35 raising IOError: line 36 is not reached
WriteRaise ==
    /\ pc = "write"
    /\ \E k \in PartialLens(accounts_json) :
           fs' = Appended(fs, output, Prefix(accounts_json, k))
    /\ Raise("write")
    /\ UNCHANGED <<argv, mapping, mappingIterable, fs0, output, idx,
                   account_list, accounts_json, output_file, buffered, runs,
                   mainCalls, opens>>

\* line 36 and the return to the entry point
CloseOk ==
    /\ pc = "close"
    /\ fs' = Appended(fs, output, buffered)
    /\ buffered' = <<>>
    /\ output_file' = "closed"
    /\ pc' = "done"
    /\ exitCode' = 0
    /\ UNCHANGED <<argv, mapping, mappingIterable, fs0, output, idx,
                   account_list, accounts_json, raised, runs, mainCalls,
                   opens>>

\* line 36 raising IOError while flushing: the handle is released anyway
CloseRaise ==
    /\ pc = "close"
    /\ \E k \in PartialLens(buffered) :
           fs' = Appended(fs, output, Prefix(buffered, k))
    /\ buffered' = <<>>
    /\ output_file' = "closed"
    /\ Raise("close")
    /\ UNCHANGED <<argv, mapping, mappingIterable, fs0, output, idx,
                   account_list, accounts_json, runs, mainCalls, opens>>

\* the script is run again with the same arguments
Rerun ==
    /\ pc \in {"done", "failed"}
    /\ runs < MaxRuns
    /\ runs' = runs + 1
    /\ fs0' = fs
    /\ pc' = "start"
    /\ output' = ""
    /\ idx' = 1
    /\ account_list' = <<>>
    /\ accounts_json' = <<>>
    /\ output_file' = "none"
    /\ buffered' = <<>>
    /\ exitCode' = -1
    /\ raised' = "none"
    /\ mainCalls' = 0
    /\ opens' = 0
    /\ UNCHANGED <<argv, mapping, mappingIterable, fs>>

Next ==
    \/ EntryPoint
    \/ ForRaise
    \/ ForNext
    \/ DumpsOk
    \/ DumpsRaise
    \/ OpenOk
    \/ OpenRaise
    \/ WriteOk
    \/ WriteRaise
    \/ CloseOk
    \/ CloseRaise
    \/ Rerun

Spec == Init /\ [][Next]_vars

-----------------------------------------------------------------------------
(* Reading the written document back: a JSON reader for arrays of objects  *)
(* with string members, and the split of a text into lines.                *)

Err == [ok |-> FALSE, val |-> <<>>, next |-> 0]

Ok(v, n) == [ok |-> TRUE, val |-> v, next |-> n]

At(t, i) == IF i \in 1..Len(t) THEN t[i] ELSE ""

RECURSIVE SkipWs(_, _)
SkipWs(t, i) == IF At(t, i) \in {" ", NL} THEN SkipWs(t, i + 1) ELSE i

UnescapeChar(c) == IF c = "n" THEN NL ELSE c

RECURSIVE ReadChars(_, _, _)
ReadChars(t, i, acc) ==
    IF At(t, i) = "" THEN Err
    ELSE IF At(t, i) = Q THEN Ok(acc, i + 1)
    ELSE IF At(t, i) = BS
         THEN IF At(t, i + 1) = "" THEN Err
              ELSE ReadChars(t, i + 2, Append(acc, UnescapeChar(At(t, i + 1))))
         ELSE ReadChars(t, i + 1, Append(acc, At(t, i)))

ReadString(t, i) == IF At(t, i) = Q THEN ReadChars(t, i + 1, <<>>) ELSE Err

RECURSIVE ReadMembers(_, _, _)
ReadMembers(t, i, acc) ==
    LET k == ReadString(t, i)
    IN  IF ~k.ok THEN Err
        ELSE LET c == SkipWs(t, k.next)
             IN  IF At(t, c) # ":" THEN Err
                 ELSE LET v == ReadString(t, SkipWs(t, c + 1))
                      IN  IF ~v.ok THEN Err
                          ELSE LET e == SkipWs(t, v.next)
                                   acc2 == Append(acc, <<k.val, v.val>>)
                               IN  IF At(t, e) = ","
                                   THEN ReadMembers(t, SkipWs(t, e + 1), acc2)
                                   ELSE IF At(t, e) = "}"
                                        THEN Ok(acc2, e + 1)
                                        ELSE Err

ReadObject(t, i) ==
    IF At(t, i) # "{" THEN Err
    ELSE LET j == SkipWs(t, i + 1)
         IN  IF At(t, j) = "}" THEN Ok(<<>>, j + 1)
             ELSE ReadMembers(t, j, <<>>)

RECURSIVE ReadElems(_, _, _)
ReadElems(t, i, acc) ==
    LET o == ReadObject(t, i)
    IN  IF ~o.ok THEN Err
        ELSE LET e == SkipWs(t, o.next)
                 acc2 == Append(acc, o.val)
             IN  IF At(t, e) = ","
                 THEN ReadElems(t, SkipWs(t, e + 1), acc2)
                 ELSE IF At(t, e) = "]" THEN Ok(acc2, e + 1) ELSE Err

ReadArray(t, i) ==
    IF At(t, i) # "[" THEN Err
    ELSE LET j == SkipWs(t, i + 1)
         IN  IF At(t, j) = "]" THEN Ok(<<>>, j + 1)
             ELSE ReadElems(t, j, <<>>)

\* the objects of the document, each as its members in the order they appear
ParseJson(t) ==
    LET a == ReadArray(t, SkipWs(t, 1))
    IN  IF a.ok /\ SkipWs(t, a.next) = Len(t) + 1 THEN a ELSE Err

HasKey(obj, key) == \E k \in 1..Len(obj) : obj[k][1] = key

Field(obj, key) == obj[CHOOSE k \in 1..Len(obj) : obj[k][1] = key][2]

\* obj is exactly the record {name, id} of the mapping entry e
IsRecordOf(obj, e) ==
    /\ Len(obj) = 2
    /\ HasKey(obj, KeyName)
    /\ HasKey(obj, KeyId)
    /\ Field(obj, KeyName) = e.name
    /\ Field(obj, KeyId) = e.id

\* positions of the line ends of t, with a sentinel before and after
LineEnds(t) == {0, Len(t) + 1} \cup {i \in 1..Len(t) : t[i] = NL}

\* the n-th smallest element of a set of positions, counted from 0
NthEnd(ends, n) ==
    CHOOSE p \in ends : Cardinality({q \in ends : q < p}) = n

Lines(t) ==
    LET ends == LineEnds(t)
    IN  [n \in 1..(Cardinality(ends) - 1) |->
            SubSeq(t, NthEnd(ends, n - 1) + 1, NthEnd(ends, n) - 1)]

RECURSIVE LeadingSpaces(_)
LeadingSpaces(line) ==
    IF line # <<>> /\ Head(line) = " " THEN 1 + LeadingSpaces(Tail(line))
    ELSE 0

FirstInk(line) == At(line, LeadingSpaces(line) + 1)

\* the file main() was asked to write, and what it held when the run began
Written == fs[output]

Before == fs0[output]

Succeeded == pc = "done" /\ exitCode = 0

-----------------------------------------------------------------------------
(* C1: after a successful run the written array holds exactly one record   *)
(* {name, id} per entry of the mapping: as many objects as entries, every  *)
(* object the record of an entry, every entry the source of one object.    *)
RecordsMatchEntries ==
    Succeeded =>
        LET doc == ParseJson(Written.data)
        IN  /\ Written.exists
            /\ doc.ok
            /\ Len(doc.val) = Len(mapping)
            /\ \A j \in 1..Len(doc.val) :
                   \E i \in 1..Len(mapping) : IsRecordOf(doc.val[j], mapping[i])
            /\ \A i \in 1..Len(mapping) :
                   Cardinality({j \in 1..Len(doc.val) :
                                    IsRecordOf(doc.val[j], mapping[i])}) = 1

RecordsMatchEntriesWitness ==
    /\ Succeeded
    /\ Len(mapping) = 2
    /\ \E i \in 1..2 : mapping[i].name = NameQuoted
    /\ mapping[1].id = mapping[2].id

-----------------------------------------------------------------------------
(* C2, as stated: whenever opening or writing the output fails, the exit   *)
(* code is non-zero and the file at the path is absent or holds what it    *)
(* held before the run.                                                    *)
FailedOutputLeavesNoTrace ==
    raised \in {"open", "write", "close"} =>
        /\ exitCode # 0
        /\ (~Written.exists \/ Written = Before)

(* C2, amended: whenever opening the output fails, the exit code is        *)
(* non-zero and the file at the path is as it was before the run (absent,  *)
(* or with its old content).                                               *)
FailedOpenLeavesFileUntouched ==
    raised = "open" =>
        /\ pc = "failed"
        /\ exitCode # 0
        /\ Written = Before

FailedOpenLeavesFileUntouchedWitness ==
    /\ raised = "open"
    /\ output = ReadOnlyPath
    /\ Before = File(OldContent)

-----------------------------------------------------------------------------
(* C3: in no terminal state of a run is the file handle main() opened      *)
(* still open.                                                             *)
HandleReleasedOnEveryExit ==
    pc \in {"done", "failed"} => output_file # "open"

-----------------------------------------------------------------------------
(* Lines of the document for the mapping {"qa": "475063612724"} *)

QaMapping == <<[name |-> NameQa, id |-> IdQa]>>

QaIdLine == Spaces(8) \o <<Q, "i", "d", Q, ":", " ", Q>> \o IdQa \o <<Q, ",">>

QaNameLine ==
    Spaces(8) \o <<Q, "n", "a", "m", "e", Q, ":", " ", Q, "q", "a", Q>>

\* the six lines the claim gives
QaLinesClaimed ==
    <<(<<"[">>), Spaces(4) \o <<"{">>, QaIdLine, QaNameLine,
      Spaces(4) \o <<"}">>, (<<"]">>)>>

\* the same lines with the blank that follows the comma
QaLinesPython2 ==
    <<(<<"[">>), Spaces(4) \o <<"{">>, QaIdLine \o <<" ">>, QaNameLine,
      Spaces(4) \o <<"}">>, (<<"]">>)>>

\* every object has id before name; brackets are at column 0, braces at 4
\* spaces and members at 8
SortedAndIndented(text) ==
    LET doc == ParseJson(text)
        ls == Lines(text)
    IN  /\ doc.ok
        /\ \A j \in 1..Len(doc.val) :
               /\ Len(doc.val[j]) = 2
               /\ doc.val[j][1][1] = KeyId
               /\ doc.val[j][2][1] = KeyName
        /\ \A n \in 1..Len(ls) :
               /\ FirstInk(ls[n]) \in {"[", "]", "{", "}", Q}
               /\ FirstInk(ls[n]) \in {"[", "]"} => LeadingSpaces(ls[n]) = 0
               /\ FirstInk(ls[n]) \in {"{", "}"} => LeadingSpaces(ls[n]) = 4
               /\ FirstInk(ls[n]) = Q => LeadingSpaces(ls[n]) = 8

-----------------------------------------------------------------------------
(* C5: with an empty mapping a successful run leaves exactly the two       *)
(* characters [] in the output file, whatever it held before.              *)
EmptyMappingWritesBrackets ==
    (Succeeded /\ mapping = <<>>) => Written = File(<<"[", "]">>)

EmptyMappingWritesBracketsWitness ==
    /\ Succeeded
    /\ mapping = <<>>
    /\ Before = File(OldContent)
    /\ Written = File(<<"[", "]">>)

-----------------------------------------------------------------------------
\* the path the command line names
ExpectedPath == IF argv = <<>> THEN DefaultPath ELSE argv[2]

-----------------------------------------------------------------------------
(* C7: no step of a run changes the account mapping or a file at a path    *)
(* other than output.                                                      *)
OnlyOutputFileChanges ==
    [][/\ mapping' = mapping
       /\ mappingIterable' = mappingIterable
       /\ \A p \in Paths : fs'[p] # fs[p] => p = output]_vars

OnlyOutputFileChangesWitness ==
    /\ pc = "failed"
    /\ raised = "write"
    /\ Written # Before
    /\ Len(mapping) = 2
    /\ \A p \in Paths \ {output} : fs[p] = File(OldContent)

-----------------------------------------------------------------------------
(* C8: after a successful run the i-th object of the written array is the  *)
(* record of the i-th entry the mapping yields.                            *)
ArrayFollowsIterationOrder ==
    Succeeded =>
        LET doc == ParseJson(Written.data)
        IN  /\ doc.ok
            /\ Len(doc.val) = Len(mapping)
            /\ \A i \in 1..Len(mapping) : IsRecordOf(doc.val[i], mapping[i])

\* the second entry's name sorts before the first one's
ArrayFollowsIterationOrderWitness ==
    /\ Succeeded
    /\ Len(mapping) = 2
    /\ mapping[1].name = NameQa
    /\ mapping[2].name = NameQuoted

-----------------------------------------------------------------------------
\* the list main() builds from a mapping
RECURSIVE OwnersOf(_)
OwnersOf(m) ==
    IF m = <<>> THEN <<>>
    ELSE <<Owner(Head(m).name, Head(m).id)>> \o OwnersOf(Tail(m))

(* C9: after a successful run the output file holds exactly the text this  *)
(* run serialized, which depends on the mapping alone, so nothing of the   *)
(* previous content remains and a second run leaves the same content.      *)
OutputIsExactlyThisRunsText ==
    Succeeded =>
        /\ Written = File(accounts_json)
        /\ accounts_json = Dumps(OwnersOf(mapping))

\* a second successful run over the output of the first
OutputIsExactlyThisRunsTextWitness ==
    /\ Succeeded
    /\ runs = 2
    /\ mapping # <<>>
    /\ Before = File(accounts_json)
    /\ Written = Before

-----------------------------------------------------------------------------
(* C10: the output is opened only once the whole mapping has been read and *)
(* the list serialized; a run that fails while iterating or serializing    *)
(* never opened the file and left it as it was; open is attempted at most  *)
(* once per run.                                                           *)
OpenOnlyAfterSerialization ==
    /\ (opens > 0 \/ output_file # "none") =>
           /\ idx = Len(mapping) + 1
           /\ account_list = OwnersOf(mapping)
           /\ accounts_json = Dumps(account_list)
    /\ raised \in {"for", "dumps"} =>
           /\ opens = 0
           /\ output_file = "none"
           /\ fs = fs0
    /\ opens <= 1

OpenOnlyAfterSerializationWitness ==
    /\ raised = "dumps"
    /\ output \in Writable
    /\ Before = File(OldContent)
    /\ Len(mapping) = 2

====
